---- MODULE Spec2Model ----
(***************************************************************************)
(* LatteReview GUI: result aggregation, workflow runnability, workflow     *)
(* construction and the review run of the Streamlit session.               *)
(*                                                                         *)
(* Data frames are sequences of rows; a row maps column names (strings,    *)
(* built exactly as the f-strings of the source build them) to cell        *)
(* values.  A column that is absent from the frame and a cell that is NaN  *)
(* are both "no value": every test of the source is of the form            *)
(* `col in row and pd.notna(row[col])`.                                    *)
(***************************************************************************)
EXTENDS Integers, Sequences, FiniteSets, TLC

\* ---------------------------------------------------------------- bounds
MaxRounds  == 2     \* rounds of an enumerated workflow configuration
MaxAgents  == 2     \* agents of one round
MaxTable   == 3     \* size of an enumerated raw result table: rows + non-null cells
MaxCalls   == 2     \* backend invocations of one session

\* ---------------------------------------------------------------- values
\* A cell value: null (NaN / absent), a string, a float (in tenths) or a list.
NA     == [t |-> "na",   s |-> "", n |-> 0, l |-> <<>>]
Str(x) == [t |-> "str",  s |-> x,  n |-> 0, l |-> <<>>]
Num(k) == [t |-> "num",  s |-> "", n |-> k, l |-> <<>>]
Lst(q) == [t |-> "list", s |-> "", n |-> 0, l |-> q]

AGENT_TYPE_NAMES == <<"TitleAbstractReviewer", "ScoringReviewer", "AbstractionReviewer">>
Suffixes == <<"evaluation", "score", "reasoning", "extracted_concepts", "error">>
Letters  == <<"A", "B", "C", "D", "E", "F", "G", "H">>

AgentNameSeq == <<"Agent 1", "Agent 2">>
AgentNames == {AgentNameSeq[i] : i \in 1..Len(AgentNameSeq)}
RecordIds  == {"A1", "A2"}

\* chr(ord('A') + i), i counted from 1 here
RoundId(i) == Letters[i]

\* f"round-{r_id}_{agent_name}_{suffix}"
ColName(i, name, suffix) == "round-" \o RoundId(i) \o "_" \o name \o "_" \o suffix

\* `col in raw_row` and the value found there
Cell(row, col) == IF col \in DOMAIN row.cells THEN row.cells[col] ELSE NA

\* str(float) for a float kept in tenths: 40 -> "4.0"
FloatStr(k) == ToString(k \div 10) \o "." \o ToString(k % 10)

RECURSIVE ListItems(_)
ListItems(q) ==
    IF Len(q) = 0 THEN ""
    ELSE IF Len(q) = 1 THEN "'" \o q[1] \o "'"
    ELSE "'" \o q[1] \o "', " \o ListItems(Tail(q))

\* f"{value}" of a cell
Render(v) ==
    CASE v.t = "str"  -> v.s
      [] v.t = "num"  -> FloatStr(v.n)
      [] v.t = "list" -> "[" \o ListItems(v.l) \o "]"
      [] OTHER        -> "nan"

\* float(x): the parsed value in tenths, or -1 when float() raises
FloatOf(v) ==
    CASE v.t = "num" -> v.n
      [] v.t = "str" /\ v.s = "4.2" -> 42
      [] v.t = "str" /\ v.s = "4.0" -> 40
      [] v.t = "str" /\ v.s = "2.0" -> 20
      [] OTHER -> -1

\* The truth value Python takes of pd.notna(x) in `... and pd.notna(x) and ...`:
\* pd.notna of a list is an ndarray of booleans, whose truth value is that of
\* its element when it has one element and raises ValueError when it has
\* several.  (An empty list is not part of the enumerated inputs.)
NotnaTruth(v) ==
    CASE v.t = "na"   -> "false"
      [] v.t = "list" -> IF Len(v.l) = 1 THEN "true"
                         ELSE IF Len(v.l) = 0 THEN "false" ELSE "raise"
      [] OTHER        -> "true"

\* raw_row[col] != ""
NotEmptyStr(v) == ~(v.t = "str" /\ v.s = "")

\* the items of a list
SeqRange(q) == {q[x] : x \in 1..Len(q)}

\* ------------------------------------------------- workflow configuration
GetRounds(w) == IF w.kind = "dict" /\ w.has_rounds THEN w.rounds ELSE <<>>
GetAgents(rd) == IF rd.has_agents THEN rd.agents ELSE <<>>

RECURSIVE Flatten(_)
Flatten(ss) == IF Len(ss) = 0 THEN <<>> ELSE Head(ss) \o Flatten(Tail(ss))

\* (faulty variant) the rounds visited from the last to the first
ConfigCols_RoundsReversed(w) ==
    LET rs == GetRounds(w) IN
    Flatten([x \in 1..Len(rs) |->
        Flatten([j \in 1..Len(GetAgents(rs[Len(rs) + 1 - x])) |->
            [k \in 1..Len(Suffixes) |->
                [col    |-> ColName(Len(rs) + 1 - x, GetAgents(rs[Len(rs) + 1 - x])[j].name, Suffixes[k]),
                 suffix |-> Suffixes[k],
                 round  |-> Len(rs) + 1 - x,
                 agent  |-> j]]])])

\* The columns visited by the three nested loops of post_process_review_results,
\* in the order visited: rounds, then agents of the round, then suffixes.
ConfigCols(w) ==
    LET rs == GetRounds(w) IN
    Flatten([i \in 1..Len(rs) |->
        Flatten([j \in 1..Len(GetAgents(rs[i])) |->
            [k \in 1..Len(Suffixes) |->
                [col    |-> ColName(i, GetAgents(rs[i])[j].name, Suffixes[k]),
                 suffix |-> Suffixes[k],
                 round  |-> i,
                 agent  |-> j]]])])

\* ---------------------------------------------------------- result tables
\* A processed row.  detailed_workflow_log is kept as the sequence of the
\* lines that "\n".join(...) joins ("" is the empty sequence).
ResultRow(id, dec, score, reason, log, concepts) ==
    [id |-> id, final_decision |-> dec, final_score |-> score,
     reasoning_summary |-> reason, detailed_workflow_log |-> log,
     extracted_concepts |-> concepts]

\* list(a_set): the elements once each, in an order Python does not fix
SeqsOfSet(S) ==
    {q \in [1..Cardinality(S) -> S] : \A i, j \in 1..Cardinality(S) : i # j => q[i] # q[j]}

\* str(x)[:200] + "..."  (the enumerated strings are shorter than 200)
Summary(v) == Str(Render(v) \o "...")

\* ------------------------------------- gui_utils.post_process_review_results
\* `if col_name in raw_row and pd.notna(raw_row[col_name]) and raw_row[col_name] != ""`
LogTest(row, col) ==
    IF col \notin DOMAIN row.cells THEN "skip"
    ELSE LET nn == NotnaTruth(row.cells[col]) IN
         IF nn = "raise" THEN "raise"
         ELSE IF nn = "true" /\ NotEmptyStr(row.cells[col]) THEN "log" ELSE "skip"

LogLine(row, col) == col \o ": " \o Render(row.cells[col])

RECURSIVE LogsOver(_, _)
LogsOver(row, cols) ==
    IF Len(cols) = 0 THEN <<>>
    ELSE (IF LogTest(row, Head(cols).col) = "log"
          THEN <<LogLine(row, Head(cols).col)>> ELSE <<>>)
         \o LogsOver(row, Tail(cols))

PPRaises(row, cols) ==
    \E k \in 1..Len(cols) : LogTest(row, cols[k].col) = "raise"

\* concepts_this_article.update(raw_row[col_name]) for the logged list cells
PPConcepts(row, cols) ==
    UNION { { row.cells[cols[k].col].l[x] : x \in 1..Len(row.cells[cols[k].col].l) } :
            k \in { k2 \in 1..Len(cols) :
                      /\ LogTest(row, cols[k2].col) = "log"
                      /\ cols[k2].suffix = "extracted_concepts"
                      /\ row.cells[cols[k2].col].t = "list" } }

\* processed_df.loc[idx, 'extracted_concepts'] = list(concepts_this_article):
\* a list of several items assigned to one cell through .loc is stored as the
\* list or refused with ValueError ("Must have equal len keys and value when
\* setting with an iterable"), depending on the pandas at hand.
LocListMayRaise(row, cols) == Cardinality(PPConcepts(row, cols)) >= 2

\* (faulty variant) the last agent of the last round instead of the first
FirstAgentLastRound_LastAgent(w) ==
    GetAgents(GetRounds(w)[Len(GetRounds(w))])[Len(GetAgents(GetRounds(w)[Len(GetRounds(w))]))].name

\* first_agent_lr and the three columns read from it
FirstAgentLastRound(w) == GetAgents(GetRounds(w)[Len(GetRounds(w))])[1].name
HasFirstAgentLastRound(w) ==
    Len(GetRounds(w)) > 0 /\ Len(GetAgents(GetRounds(w)[Len(GetRounds(w))])) > 0
LastCol(w, suffix) == ColName(Len(GetRounds(w)), FirstAgentLastRound(w), suffix)

PPFinalDecision(row, w) ==
    IF HasFirstAgentLastRound(w) /\ NotnaTruth(Cell(row, LastCol(w, "evaluation"))) = "true"
    THEN Cell(row, LastCol(w, "evaluation")) ELSE Str("N/A")

PPFinalScore(row, w) ==
    IF /\ HasFirstAgentLastRound(w)
       /\ NotnaTruth(Cell(row, LastCol(w, "score"))) = "true"
       /\ FloatOf(Cell(row, LastCol(w, "score"))) >= 0
    THEN Num(FloatOf(Cell(row, LastCol(w, "score")))) ELSE NA

PPReasoning(row, w) ==
    IF HasFirstAgentLastRound(w) /\ NotnaTruth(Cell(row, LastCol(w, "reasoning"))) = "true"
    THEN Summary(Cell(row, LastCol(w, "reasoning"))) ELSE Str("N/A")

\* The processed rows one raw row can give (they differ in the order of
\* extracted_concepts only).
PPRow(row, w) ==
    IF Len(GetRounds(w)) = 0
    THEN { ResultRow(row.id, Str("N/A"), NA, Str("N/A"), <<"N/A">>, <<>>) }
    ELSE LET cols == ConfigCols(w)
             dec  == PPFinalDecision(row, w)
             sc   == PPFinalScore(row, w)
             rs   == PPReasoning(row, w)
             logs == LogsOver(row, cols)
         IN  { ResultRow(row.id, dec, sc, rs, logs, c) : c \in SeqsOfSet(PPConcepts(row, cols)) }

\* Tables whose i-th row is one of rowsets[i]
TablesOf(rowsets) ==
    {t \in [1..Len(rowsets) -> UNION {rowsets[i] : i \in 1..Len(rowsets)}] :
        \A i \in 1..Len(rowsets) : t[i] \in rowsets[i]}

\* ------------------------------- app.py main(): the inline post-processing
\* processed_df.columns for a frame returned by the backend: the input columns
\* it carries, then the outcome columns round by round.
FrameCols ==
    << [col |-> "authors", suffix |-> "", round |-> 0, agent |-> 0],
       [col |-> "year", suffix |-> "", round |-> 0, agent |-> 0] >> \o
    Flatten([i \in 1..MaxRounds |->
        Flatten([j \in 1..Len(AgentNameSeq) |->
            [k \in 1..Len(Suffixes) |->
                [col    |-> ColName(i, AgentNameSeq[j], Suffixes[k]),
                 suffix |-> Suffixes[k],
                 round  |-> i,
                 agent  |-> j]]])])

\* `try: final_score_val = float(...)  except: final_score_val = pd.NA`
InlineFinalScore(row, w) == PPFinalScore(row, w)

InlineReasoning(row, w) ==
    IF HasFirstAgentLastRound(w) /\ NotnaTruth(Cell(row, LastCol(w, "reasoning"))) = "true"
    THEN Summary(Cell(row, LastCol(w, "reasoning"))) ELSE Str("")

\* The inline code creates no extracted_concepts column: the field is empty.
InlineRow(row, w) ==
    IF Len(GetRounds(w)) = 0
    THEN ResultRow(row.id, Str("N/A"), NA, Str(""), <<"Error: No rounds in config">>, <<>>)
    ELSE ResultRow(row.id, PPFinalDecision(row, w), InlineFinalScore(row, w),
                   InlineReasoning(row, w), LogsOver(row, FrameCols), <<>>)

\* results_df_raw.copy() of None, or pd.notna(list) taken as a truth value
InlineRaises(frame, w) ==
    frame.none \/ (Len(GetRounds(w)) > 0 /\ \E i \in 1..Len(frame.rows) : PPRaises(frame.rows[i], FrameCols))

InlineTable(frame, w) == [i \in 1..Len(frame.rows) |-> InlineRow(frame.rows[i], w)]

\* ------------------------------------------------------------------ state
VARIABLES
    wf,       \* the GUI workflow configuration handed to the function under study
    raw,      \* the data frame handed to it: [none, rows]
    api_key,  \* the api_key argument handed to it
    lib,      \* the lattereview library: which of its constructors raise
    out,      \* what the function returned
    pc,       \* "ready", then the function that ran and how it ended
    ss,       \* st.session_state of the Streamlit session
    calls     \* how often the session has invoked the review backend

vars == <<wf, raw, api_key, lib, out, pc, ss, calls>>

\* the library with every constructor working, and the state of "no session"
LibWorks == [raising |-> {}, workflow_raises |-> FALSE]
NoSession == [review_in_progress |-> FALSE]

\* --------------------------------------------------------- enumerated inputs
RoundName(i) == "Round " \o ToString(i)

FilterOf(type) == [type |-> type, has_threshold |-> FALSE, threshold |-> 0]

\* the filter_config get_current_project_workflow gives a round that has none
DefaultFilter(i) == IF i = 1 THEN FilterOf("all_previous") ELSE FilterOf("included_previous")

MkRound(i, agents) ==
    [name |-> RoundName(i), has_agents |-> TRUE, agents |-> agents,
     filter_config |-> DefaultFilter(i)]

MkWf(rounds) == [kind |-> "dict", has_rounds |-> TRUE, rounds |-> rounds]

MkAgent(name, type) == [name |-> name, type |-> type]

AgentSeqs(S) == UNION {[1..k -> S] : k \in 0..MaxAgents}

WorkflowsOver(S) ==
    UNION { { MkWf([i \in 1..n |-> MkRound(i, q[i])]) : q \in [1..n -> AgentSeqs(S)] } :
            n \in 0..MaxRounds }

\* post_process_review_results never reads an agent's type
AggAgents == {MkAgent(a, "ScoringReviewer") : a \in AgentNames}

EvalValues    == {Str("Included"), Str("Excluded")}
ScoreValues   == {Num(40), Num(20), Str("4.2"), Str("bad"), Str("")}
ReasonValues  == {Str("ok")}
ConceptValues == {Lst(<<"c1">>), Lst(<<"c2">>), Lst(<<"c1", "c2">>)}
ErrorValues   == {Str("timeout")}

SuffixValues(sfx) ==
    CASE sfx = "evaluation" -> EvalValues
      [] sfx = "score" -> ScoreValues
      [] sfx = "reasoning" -> ReasonValues
      [] sfx = "extracted_concepts" -> ConceptValues
      [] OTHER -> ErrorValues

AuthorValues  == {Lst(<<"Smith">>), Lst(<<"Smith", "Lee">>)}
YearValues    == {Str("2020")}

\* every (row, column, value) a raw table of n rows can hold
CellChoices(n) ==
    UNION { { <<i, ColName(r, a, Suffixes[k]), v>> : v \in SuffixValues(Suffixes[k]) } :
            i \in 1..n, r \in 1..MaxRounds, a \in AgentNames, k \in 1..Len(Suffixes) }
    \cup { <<i, "authors", v>> : i \in 1..n, v \in AuthorValues }
    \cup { <<i, "year", v>> : i \in 1..n, v \in YearValues }

OneValuePerCell(P) == \A c, d \in P : (c[1] = d[1] /\ c[2] = d[2]) => c = d

\* the sets of at most k cells
RECURSIVE CellSets(_, _)
CellSets(n, k) ==
    IF k <= 0 THEN {{}}
    ELSE LET prev == CellSets(n, k - 1) IN
         prev \cup { Q \in { P \cup {c} : P \in prev, c \in CellChoices(n) } : OneValuePerCell(Q) }

RowOf(id, i, P) ==
    [id |-> id,
     cells |-> [col \in {c[2] : c \in {d \in P : d[1] = i}} |->
                   (CHOOSE c \in P : c[1] = i /\ c[2] = col)[3]]]

\* the raw tables of n rows and at most MaxTable - n non-null cells
RawTables ==
    UNION { { [none |-> FALSE, rows |-> [i \in 1..n |-> RowOf(ids[i], i, P)]] :
              ids \in [1..n -> RecordIds], P \in CellSets(n, MaxTable - n) } :
            n \in 0..MaxTable }

NoneTable == [none |-> TRUE, rows |-> <<>>]

\* ------------------------------------------------ aggregation as a function
InitAgg ==
    /\ wf \in WorkflowsOver(AggAgents)
    /\ raw \in RawTables \cup {NoneTable}
    /\ out = <<>>
    /\ pc = "ready"
    /\ api_key = ""
    /\ lib = LibWorks
    /\ ss = NoSession
    /\ calls = 0

\* gui_utils.post_process_review_results(results_df_raw, gui_workflow_config)
post_process_review_results ==
    /\ pc = "ready"
    /\ IF raw.none
       THEN out' = <<>> /\ pc' = "pp_done"
       ELSE LET cols == ConfigCols(wf) IN
            IF Len(GetRounds(wf)) > 0 /\ \E i \in 1..Len(raw.rows) : PPRaises(raw.rows[i], cols)
            THEN out' = <<>> /\ pc' = "pp_raised"
            ELSE \/ /\ out' \in TablesOf([i \in 1..Len(raw.rows) |-> PPRow(raw.rows[i], wf)])
                    /\ pc' = "pp_done"
                 \/ /\ Len(GetRounds(wf)) > 0
                    /\ \E i \in 1..Len(raw.rows) : LocListMayRaise(raw.rows[i], cols)
                    /\ out' = <<>> /\ pc' = "pp_raised"
    /\ UNCHANGED <<wf, raw, api_key, lib, ss, calls>>

\* app.py main(), lines 434-457, applied to the frame the backend returned
InlinePostProcess ==
    /\ pc = "ready"
    /\ IF InlineRaises(raw, wf)
       THEN out' = <<>> /\ pc' = "inline_raised"
       ELSE /\ out' = InlineTable(raw, wf)
            /\ pc' = "inline_done"
    /\ UNCHANGED <<wf, raw, api_key, lib, ss, calls>>

NextAgg == post_process_review_results \/ InlinePostProcess

SpecAgg == InitAgg /\ [][NextAgg]_vars

\* ------------------------------------------ gui_utils.is_workflow_runnable
\* `not wf or not wf.get("rounds")`: None, {} and a missing or empty rounds list
NoRounds(w) == w.kind = "none" \/ ~w.has_rounds \/ Len(w.rounds) = 0

\* (faulty variant) only the first round is looked at
RoundsFrom_FirstRoundOnly(rs, i) ==
    IF i # 1 THEN TRUE ELSE rs[i].has_agents /\ Len(rs[i].agents) > 0

\* the loop over wf["rounds"] from round i on: False at the first round whose
\* agents are missing or empty, True when the loop runs out
RECURSIVE RoundsFrom(_, _)
RoundsFrom(rs, i) ==
    IF i > Len(rs) THEN TRUE
    ELSE IF ~rs[i].has_agents \/ Len(rs[i].agents) = 0 THEN FALSE
    ELSE RoundsFrom(rs, i + 1)

is_workflow_runnable(w) == IF NoRounds(w) THEN FALSE ELSE RoundsFrom(w.rounds, 1)

\* ------------------------- gui_utils.build_lattereview_workflow_from_config
\* AGENT_TYPES_MAP.get(agent_config["type"]) finds a class
KnownType(type) == \E k \in 1..Len(AGENT_TYPE_NAMES) : AGENT_TYPE_NAMES[k] = type

\* The loop over the agents of one round from agent j on: an agent of unknown
\* type is passed over (`continue`), a constructor that raises ends the build.
RECURSIVE Reviewers(_, _, _)
Reviewers(agents, j, l) ==
    IF j > Len(agents) THEN [failed |-> FALSE, reviewers |-> <<>>]
    ELSE IF ~KnownType(agents[j].type) THEN Reviewers(agents, j + 1, l)
    ELSE IF agents[j].name \in l.raising THEN [failed |-> TRUE, reviewers |-> <<>>]
    ELSE LET rest == Reviewers(agents, j + 1, l) IN
         [failed |-> rest.failed,
          reviewers |-> IF rest.failed THEN <<>> ELSE <<agents[j].name>> \o rest.reviewers]

\* The loop over the rounds from round i on: a round left without reviewers
\* ends the build.
RECURSIVE SchemaFrom(_, _, _)
SchemaFrom(rs, i, l) ==
    IF i > Len(rs) THEN [failed |-> FALSE, schema |-> <<>>]
    ELSE LET r == Reviewers(GetAgents(rs[i]), 1, l) IN
         IF r.failed \/ Len(r.reviewers) = 0 THEN [failed |-> TRUE, schema |-> <<>>]
         ELSE LET rest == SchemaFrom(rs, i + 1, l) IN
              [failed |-> rest.failed,
               schema |-> IF rest.failed THEN <<>>
                          ELSE <<[round |-> RoundId(i), reviewers |-> r.reviewers]>> \o rest.schema]

NoWorkflow == [kind |-> "none", schema |-> <<>>]

\* The value returned: None, or the ReviewWorkflow with its schema.  On a
\* configuration of None, `.get` raises AttributeError.
build_lattereview_workflow_from_config(w, key, l) ==
    IF key = "" THEN NoWorkflow
    ELSE IF w.kind = "none" THEN [kind |-> "raise", schema |-> <<>>]
    ELSE LET b == SchemaFrom(GetRounds(w), 1, l) IN
         IF b.failed \/ Len(b.schema) = 0 \/ l.workflow_raises THEN NoWorkflow
         ELSE [kind |-> "workflow", schema |-> b.schema]

\* ------------------------------------- workflow functions: enumerated inputs
NoneWf  == [kind |-> "none", has_rounds |-> FALSE, rounds |-> <<>>]
EmptyWf == [kind |-> "dict", has_rounds |-> FALSE, rounds |-> <<>>]

WfTypes == {AGENT_TYPE_NAMES[k] : k \in 1..Len(AGENT_TYPE_NAMES)} \cup {"NonExistentReviewer"}
WfAgents == {MkAgent(a, t) : a \in AgentNames, t \in WfTypes}

\* a round without the "agents" key
RoundWithoutAgents(i) ==
    [name |-> RoundName(i), has_agents |-> FALSE, agents |-> <<>>,
     filter_config |-> DefaultFilter(i)]

WfRoundChoices ==
    {[missing |-> FALSE, agents |-> q] : q \in AgentSeqs(WfAgents)} \cup
    {[missing |-> TRUE, agents |-> <<>>]}

WfInputs ==
    {NoneWf, EmptyWf} \cup
    UNION { { MkWf([i \in 1..n |-> IF q[i].missing THEN RoundWithoutAgents(i)
                                   ELSE MkRound(i, q[i].agents)]) :
              q \in [1..n -> WfRoundChoices] } : n \in 0..MaxRounds }

LibStates == [raising : SUBSET AgentNames, workflow_raises : BOOLEAN]

InitWf ==
    /\ wf \in WfInputs
    /\ api_key \in {"", "key"}
    /\ lib \in LibStates
    /\ raw = NoneTable
    /\ out = NoWorkflow
    /\ pc = "ready"
    /\ ss = NoSession
    /\ calls = 0

CallIsWorkflowRunnable ==
    /\ pc = "ready"
    /\ out' = [kind |-> "bool", value |-> is_workflow_runnable(wf)]
    /\ pc' = "runnable_done"
    /\ UNCHANGED <<wf, raw, api_key, lib, ss, calls>>

CallBuild ==
    /\ pc = "ready"
    /\ out' = build_lattereview_workflow_from_config(wf, api_key, lib)
    /\ pc' = "build_done"
    /\ UNCHANGED <<wf, raw, api_key, lib, ss, calls>>

NextWf == CallIsWorkflowRunnable \/ CallBuild

SpecWf == InitWf /\ [][NextWf]_vars

\* ------------------------------------------------- the Streamlit session
\* One action is one script pass: the widget event that starts it, the
\* handler's assignments and everything the pass runs up to st.rerun().
Projects  == {"p1", "p2"}     \* get_existing_projects()
NoProject == "None"
RisFile   == "refs.ris"       \* the .ris file of a project's data directory
NoFile    == "None"
ApiKeys   == {"key"}

Attempting == "Attempting to build workflow..."

\* the defaults main() gives the keys of st.session_state
InitialSession ==
    [api_key_entered      |-> FALSE,
     gemini_api_key       |-> "",
     selected_project_id  |-> NoProject,
     workflow_config      |-> [p \in Projects |-> NoneWf],
     ris_dataframes       |-> [p \in Projects |-> FALSE],
     active_ris_filename  |-> NoFile,
     review_in_progress   |-> FALSE,
     review_log           |-> <<>>,
     review_progress      |-> 0,
     review_results       |-> NoneTable]

DefaultWorkflow ==
    MkWf(<< [name |-> "Round 1", has_agents |-> TRUE, agents |-> <<>>,
             filter_config |-> FilterOf("all_previous")] >>)

\* a round without the "filter_config" key
NoFilter == [type |-> "none", has_threshold |-> FALSE, threshold |-> 0]

\* the loop of get_current_project_workflow over wf["rounds"]: a round without
\* filter_config gets the default one of its position
WithFilters(w) ==
    [w EXCEPT !.rounds = [i \in 1..Len(@) |->
        IF @[i].filter_config = NoFilter
        THEN [@[i] EXCEPT !.filter_config = DefaultFilter(i)] ELSE @[i]]]

\* get_current_project_workflow(): a project without a workflow, or with one
\* without rounds, gets the default one; then the missing filter_configs are
\* filled in.
get_current_project_workflow(s) ==
    IF s.selected_project_id = NoProject THEN s
    ELSE [s EXCEPT !.workflow_config[s.selected_project_id] =
                       WithFilters(IF NoRounds(@) THEN DefaultWorkflow ELSE @)]

CurrentWorkflow(s) == s.workflow_config[s.selected_project_id]

\* active_df_to_display is not None
ActiveDf(s) ==
    /\ s.active_ris_filename # NoFile
    /\ s.selected_project_id # NoProject
    /\ s.ris_dataframes[s.selected_project_id]

\* the pass gets past the two st.stop() of main(): a project is selected and
\* a record table is loaded
ReachesWorkflow(s) == s.selected_project_id # NoProject /\ ActiveDf(s)

\* (faulty variant) the workflow is not looked at
ready_to_run_AnyWorkflow(s) ==
    /\ s.api_key_entered /\ s.gemini_api_key # ""
    /\ ActiveDf(s)

ready_to_run(s) ==
    /\ s.api_key_entered /\ s.gemini_api_key # ""
    /\ ActiveDf(s)
    /\ is_workflow_runnable(CurrentWorkflow(s))

Last(q) == q[Len(q)]

\* review_log and review_log[-1].startswith("Attempting")
LogEndsAttempting(s) == Len(s.review_log) > 0 /\ Last(s.review_log) = Attempting

\* the frames the backend can hand back for the loaded table (one record)
BackendFrames(w) ==
    { [none |-> FALSE, rows |-> << [id |-> "A1", cells |-> c] >>] :
        c \in { [x \in {} |-> NA],
                [x \in {LastCol(w, "evaluation")} |-> Str("Included")],
                [x \in {"authors"} |-> Lst(<<"Smith", "Lee">>)] } }

BackendError == "Error: backend failure"
ArrayTruthError ==
    "Error: The truth value of an array with more than one element is ambiguous. Use a.any() or a.all()"

\* (faulty variant) the failed build leaves the progress where Start put it
BuildFailed_KeepsProgress(s) ==
    [s EXCEPT !.review_log = Append(@, "Build FAILED."),
              !.review_in_progress = FALSE]

\* the else branch of `if wf_instance:`
BuildFailed(s) ==
    [s EXCEPT !.review_log = Append(@, "Build FAILED."),
              !.review_in_progress = FALSE,
              !.review_progress = 0]

\* the backend raised: except and finally
BackendRaised(s) ==
    [s EXCEPT !.review_log = @ \o <<"Workflow built. Starting REAL review process...", BackendError>>,
              !.review_progress = 10,
              !.review_in_progress = FALSE]

\* the backend returned a frame whose post-processing raised
PostProcessingRaised(s) ==
    [s EXCEPT !.review_log = @ \o <<"Workflow built. Starting REAL review process...",
                                    "Raw results received from backend.", ArrayTruthError>>,
              !.review_progress = 90,
              !.review_in_progress = FALSE]

ReviewDone(s, frame) ==
    LET rows == InlineTable(frame, CurrentWorkflow(s)) IN
    [s EXCEPT !.review_log = @ \o <<"Workflow built. Starting REAL review process...",
                                    "Raw results received from backend.",
                                    "Results processed. Final count: " \o ToString(Len(rows))>>,
              !.review_results = [none |-> FALSE, rows |-> rows],
              !.review_progress = 100,
              !.review_in_progress = FALSE]


\* ------------------------------- ui_components: the workflow editor's pass
BaseFilterTypes == {"included_previous", "all_previous", "excluded_previous", "disagreement_previous"}
ScoreFilter == "score_above_threshold"
DefaultThreshold == 30     \* 3.0, in tenths

\* prev_round_has_scorer
HasScorer(rd) == \E j \in 1..Len(GetAgents(rd)) : GetAgents(rd)[j].type = "ScoringReviewer"

\* the keys of filter_options
FilterOptions(prev) == BaseFilterTypes \cup (IF HasScorer(prev) THEN {ScoreFilter} ELSE {})

\* (faulty variant) the whole filter_config is deleted where the threshold
\* should be
RenderFilter_DropsConfig(rd, prev) ==
    IF rd.filter_config.type \in FilterOptions(prev) /\ rd.filter_config.type = ScoreFilter
    THEN rd
    ELSE [rd EXCEPT !.filter_config = NoFilter]

\* (faulty variant) no fallback: the configured type is shown and written back
\* whatever the options are
RenderFilter_NoFallback(rd, prev) ==
    [rd EXCEPT !.filter_config =
        IF rd.filter_config.type = ScoreFilter
        THEN [type |-> ScoreFilter, has_threshold |-> TRUE,
              threshold |-> IF rd.filter_config.has_threshold
                            THEN rd.filter_config.threshold ELSE DefaultThreshold]
        ELSE FilterOf(rd.filter_config.type)]

\* (faulty variant) the threshold is not deleted when the type shown is not
\* score_above_threshold
RenderFilter_KeepsThreshold(rd, prev) ==
    LET shown == IF rd.filter_config.type \in FilterOptions(prev)
                 THEN rd.filter_config.type ELSE "included_previous"
    IN  [rd EXCEPT !.filter_config =
            IF shown = ScoreFilter
            THEN [type |-> shown, has_threshold |-> TRUE,
                  threshold |-> IF rd.filter_config.has_threshold
                                THEN rd.filter_config.threshold ELSE DefaultThreshold]
            ELSE [rd.filter_config EXCEPT !.type = shown]]

\* _render_inter_round_filter_ui_internal with no new choice made in its
\* widgets: the select box shows the configured type, or included_previous
\* when that type is not among the options, and what it shows is written
\* back; the threshold is kept for score_above_threshold only.
RenderFilter(rd, prev) ==
    LET configured == IF rd.filter_config = NoFilter THEN "included_previous"
                      ELSE rd.filter_config.type
        shown == IF configured \in FilterOptions(prev) THEN configured ELSE "included_previous"
    IN  [rd EXCEPT !.filter_config =
            IF shown = ScoreFilter
            THEN [type |-> shown, has_threshold |-> TRUE,
                  threshold |-> IF rd.filter_config.has_threshold
                                THEN rd.filter_config.threshold ELSE DefaultThreshold]
            ELSE FilterOf(shown)]

\* One complete pass over the editor: get_current_project_workflow(), then the
\* tab of every round; the filter section is rendered for every round but the
\* first.
RenderEditor(s) ==
    LET t == get_current_project_workflow(s) IN
    [t EXCEPT !.workflow_config[t.selected_project_id].rounds =
        [i \in 1..Len(@) |-> IF i = 1 THEN @[i] ELSE RenderFilter(@[i], @[i - 1])]]

Init ==
    /\ ss = InitialSession
    /\ lib \in LibStates
    /\ calls = 0
    /\ wf = NoneWf
    /\ raw = NoneTable
    /\ api_key = ""
    /\ out = NoWorkflow
    /\ pc = "session"

\* sidebar: a new API key is typed in
EnterApiKey ==
    /\ \E k \in ApiKeys :
          /\ k # ss.gemini_api_key
          /\ ss' = [ss EXCEPT !.gemini_api_key = k, !.api_key_entered = TRUE]
    /\ UNCHANGED <<wf, raw, api_key, lib, out, pc, calls>>

\* (faulty variant) the picked project always gets the default workflow
SelectProject_DefaultsWorkflow ==
    /\ \E p \in Projects :
          /\ p # ss.selected_project_id
          /\ ss' = [ss EXCEPT !.selected_project_id = p,
                              !.active_ris_filename = NoFile,
                              !.workflow_config[p] = DefaultWorkflow,
                              !.review_in_progress = FALSE,
                              !.review_log = <<>>,
                              !.review_progress = 0,
                              !.review_results = NoneTable]
    /\ UNCHANGED <<wf, raw, api_key, lib, out, pc, calls>>

\* sidebar: another project is picked in "Active Project"
SelectProject ==
    /\ \E p \in Projects :
          /\ p # ss.selected_project_id
          /\ ss' = [get_current_project_workflow(
                        [ss EXCEPT !.selected_project_id = p,
                                   !.active_ris_filename = NoFile])
                    EXCEPT !.review_in_progress = FALSE,
                           !.review_log = <<>>,
                           !.review_progress = 0,
                           !.review_results = NoneTable]
    /\ UNCHANGED <<wf, raw, api_key, lib, out, pc, calls>>

\* sidebar: "Close Project"
CloseProject ==
    /\ ss.selected_project_id # NoProject
    /\ ss' = [ss EXCEPT !.selected_project_id = NoProject,
                        !.active_ris_filename = NoFile,
                        !.review_results = NoneTable]
    /\ UNCHANGED <<wf, raw, api_key, lib, out, pc, calls>>

\* "Load & Process File" on the project's .ris file, parsed without error
LoadRis ==
    /\ ss.selected_project_id # NoProject
    /\ ss.active_ris_filename # RisFile \/ ~ss.ris_dataframes[ss.selected_project_id]
    /\ ss' = [ss EXCEPT !.ris_dataframes[ss.selected_project_id] = TRUE,
                        !.active_ris_filename = RisFile]
    /\ UNCHANGED <<wf, raw, api_key, lib, out, pc, calls>>

\* (faulty variant) the widgets of the editor are not disabled during a run
EditorEnabled_DuringRun == ReachesWorkflow(ss)

\* the workflow editor is rendered, and its buttons are enabled
EditorEnabled == ReachesWorkflow(ss) /\ ~ss.review_in_progress

\* "Add New Review Round"
AddRound ==
    /\ EditorEnabled
    /\ Len(CurrentWorkflow(ss).rounds) < MaxRounds
    /\ ss' = RenderEditor(
                [ss EXCEPT !.workflow_config[ss.selected_project_id].rounds =
                  Append(@, [name |-> RoundName(Len(@) + 1), has_agents |-> TRUE,
                             agents |-> <<>>,
                             filter_config |-> FilterOf("included_previous")])])
    /\ UNCHANGED <<wf, raw, api_key, lib, out, pc, calls>>

\* (faulty variant) the button is shown for a workflow of one round as well
RemoveLastRound_OfOneRound ==
    /\ EditorEnabled
    /\ ss' = RenderEditor(
                [ss EXCEPT !.workflow_config[ss.selected_project_id].rounds =
                  SubSeq(@, 1, Len(@) - 1)])
    /\ UNCHANGED <<wf, raw, api_key, lib, out, pc, calls>>

\* "Remove Last Review Round"
RemoveLastRound ==
    /\ EditorEnabled
    /\ Len(CurrentWorkflow(ss).rounds) > 1
    /\ ss' = RenderEditor(
                [ss EXCEPT !.workflow_config[ss.selected_project_id].rounds =
                  SubSeq(@, 1, Len(@) - 1)])
    /\ UNCHANGED <<wf, raw, api_key, lib, out, pc, calls>>

\* "Add Agent to this Round"
AddAgent ==
    /\ EditorEnabled
    /\ \E i \in 1..Len(CurrentWorkflow(ss).rounds) :
          /\ Len(CurrentWorkflow(ss).rounds[i].agents) < MaxAgents
          /\ ss' = RenderEditor(
                      [ss EXCEPT !.workflow_config[ss.selected_project_id].rounds[i].agents =
                        Append(@, MkAgent("Agent " \o ToString(Len(@) + 1), AGENT_TYPE_NAMES[1]))])
    /\ UNCHANGED <<wf, raw, api_key, lib, out, pc, calls>>

\* "Remove This Agent": round_data["agents"].pop(agent_idx)
RemoveAgent ==
    /\ EditorEnabled
    /\ \E i \in 1..Len(CurrentWorkflow(ss).rounds) :
       \E j \in 1..Len(CurrentWorkflow(ss).rounds[i].agents) :
          ss' = RenderEditor(
                   [ss EXCEPT !.workflow_config[ss.selected_project_id].rounds[i].agents =
                     SubSeq(@, 1, j - 1) \o SubSeq(@, j + 1, Len(@))])
    /\ UNCHANGED <<wf, raw, api_key, lib, out, pc, calls>>

\* "Start Review with Backend"
StartReview ==
    /\ ReachesWorkflow(ss)
    /\ ready_to_run(ss)
    /\ ~ss.review_in_progress
    /\ calls < MaxCalls
    /\ ss' = [RenderEditor(ss) EXCEPT !.review_in_progress = TRUE,
                        !.review_log = <<Attempting>>,
                        !.review_progress = 5,
                        !.review_results = NoneTable]
    /\ UNCHANGED <<wf, raw, api_key, lib, out, pc, calls>>

\* The pass after Start: the editor is rendered with its widgets disabled, the
\* workflow is built and, when that gave one, the backend is invoked on the
\* loaded table and its frame is post-processed.
RunReview ==
    /\ ReachesWorkflow(ss)
    /\ ss.review_in_progress /\ LogEndsAttempting(ss)
    /\ LET s0 == RenderEditor(ss)
           w == CurrentWorkflow(s0)
           wf_instance == build_lattereview_workflow_from_config(w, s0.gemini_api_key, lib)
       IN  IF wf_instance.kind = "workflow"
           THEN /\ calls' = calls + 1
                /\ \/ ss' = BackendRaised(s0)
                   \/ \E frame \in BackendFrames(w) :
                         IF InlineRaises(frame, w)
                         THEN ss' = PostProcessingRaised(s0)
                         ELSE ss' = ReviewDone(s0, frame)
           ELSE /\ ss' = BuildFailed(s0)
                /\ calls' = calls
    /\ UNCHANGED <<wf, raw, api_key, lib, out, pc>>

\* "Reset Review State & Prepare New Run"
ResetReview ==
    /\ ReachesWorkflow(ss)
    /\ ss.review_in_progress \/ Len(ss.review_log) > 0
    /\ ~ss.review_in_progress /\ ss.review_progress = 100
    /\ ss' = [ss EXCEPT !.review_in_progress = FALSE,
                        !.review_log = <<>>,
                        !.review_progress = 0,
                        !.review_results = NoneTable]
    /\ UNCHANGED <<wf, raw, api_key, lib, out, pc, calls>>

\* the library's constructors start or stop raising (quota, network, version)
LibChanges ==
    /\ lib' \in LibStates \ {lib}
    /\ UNCHANGED <<wf, raw, api_key, out, pc, ss, calls>>

Next ==
    \/ EnterApiKey \/ SelectProject \/ CloseProject \/ LoadRis
    \/ AddRound \/ RemoveLastRound \/ AddAgent \/ RemoveAgent
    \/ StartReview \/ RunReview \/ ResetReview
    \/ LibChanges

Spec == Init /\ [][Next]_vars

\* --------------------------------------- the workflow editor on one project
\* The editor of ui_components.render_workflow_config_ui with all its widgets
\* that change rounds, agent types and filters, on a session that has a key, a
\* selected project and a loaded record table.  pc tells whether the last
\* pass took the fallback of _render_inter_round_filter_ui_internal.
EditedProject == "p1"
Thresholds == {DefaultThreshold, 35}      \* values typed into "Score Threshold:"
RoundNames == {RoundName(i) : i \in 1..MaxRounds}   \* values typed into "Edit Round Name:"

EditorSession ==
    RenderEditor([InitialSession EXCEPT !.api_key_entered = TRUE,
                                        !.gemini_api_key = "key",
                                        !.selected_project_id = EditedProject,
                                        !.ris_dataframes[EditedProject] = TRUE,
                                        !.active_ris_filename = RisFile])

\* the filter section replaces the configured type of some round
FellBack(s) ==
    LET rounds == CurrentWorkflow(get_current_project_workflow(s)).rounds IN
    \E i \in 2..Len(rounds) : rounds[i].filter_config.type \notin FilterOptions(rounds[i - 1])

\* the pass that follows a change made in a widget of the editor
EditorPass(edited) ==
    /\ ss' = RenderEditor(edited)
    /\ pc' = IF FellBack(edited) THEN "filter_fallback" ELSE "editor"

InitEd ==
    /\ ss = EditorSession
    /\ lib = LibWorks
    /\ calls = 0
    /\ wf = NoneWf
    /\ raw = NoneTable
    /\ api_key = ""
    /\ out = NoWorkflow
    /\ pc = "editor"

\* "Agent Type:" of an agent is changed
SetAgentType ==
    /\ EditorEnabled
    /\ \E i \in 1..Len(CurrentWorkflow(ss).rounds) :
       \E j \in 1..Len(CurrentWorkflow(ss).rounds[i].agents) :
       \E t \in SeqRange(AGENT_TYPE_NAMES) :
          /\ t # CurrentWorkflow(ss).rounds[i].agents[j].type
          /\ EditorPass([ss EXCEPT !.workflow_config[ss.selected_project_id].rounds[i].agents[j].type = t])
    /\ UNCHANGED <<wf, raw, api_key, lib, out, calls>>

\* "Source of Articles:" of a round after the first is changed
SetFilterType ==
    /\ EditorEnabled
    /\ \E i \in 2..Len(CurrentWorkflow(ss).rounds) :
       \E t \in FilterOptions(CurrentWorkflow(ss).rounds[i - 1]) :
          /\ t # CurrentWorkflow(ss).rounds[i].filter_config.type
          /\ EditorPass([ss EXCEPT !.workflow_config[ss.selected_project_id].rounds[i].filter_config.type = t])
    /\ UNCHANGED <<wf, raw, api_key, lib, out, calls>>

\* "Score Threshold:" of a round filtered by score is changed
SetThreshold ==
    /\ EditorEnabled
    /\ \E i \in 2..Len(CurrentWorkflow(ss).rounds) :
       \E x \in Thresholds :
          /\ CurrentWorkflow(ss).rounds[i].filter_config.type = ScoreFilter
          /\ x # CurrentWorkflow(ss).rounds[i].filter_config.threshold
          /\ EditorPass([ss EXCEPT !.workflow_config[ss.selected_project_id].rounds[i].filter_config.threshold = x])
    /\ UNCHANGED <<wf, raw, api_key, lib, out, calls>>

\* "Edit Round Name:" of a round is changed
RenameRound ==
    /\ EditorEnabled
    /\ \E i \in 1..Len(CurrentWorkflow(ss).rounds) :
       \E n \in RoundNames :
          /\ n # CurrentWorkflow(ss).rounds[i].name
          /\ EditorPass([ss EXCEPT !.workflow_config[ss.selected_project_id].rounds[i].name = n])
    /\ UNCHANGED <<wf, raw, api_key, lib, out, calls>>

NextEd ==
    \/ AddRound \/ RemoveLastRound \/ AddAgent \/ RemoveAgent
    \/ SetAgentType \/ SetFilterType \/ SetThreshold \/ RenameRound
    \/ StartReview \/ RunReview

SpecEd == InitEd /\ [][NextEd]_vars

\* ------------------------------------------ app.py generate_simulated_results
\* The function as a loop: one step per agent of a round, one at the end of a
\* round, one at the end of a record.  `out` holds its locals:
\*   rec, r, a   the record, round and agent the loops stand at
\*   row         result_row, as [id, cells]
\*   this_round  agent_outputs_this_round
\*   by_round    agent_decisions_by_round, a dict in insertion order: <<[name, outputs]>>
\*   results     results_list
SimDecisions == {"Included", "Excluded", "Unsure"}     \* random.choice
SimScores == {20, 40}                                  \* round(random.uniform(1,5),1), in tenths
SimConcepts == {<<"KeyConceptAlpha">>, <<"KeyConceptBeta", "InsightGamma">>}   \* random.sample

\* result_row[col] = v
Put(row, col, v) ==
    [row EXCEPT !.cells = [c \in DOMAIN @ \cup {col} |-> IF c = col THEN v ELSE @[c]]]

\* d[key] = value on a dict kept in insertion order
DictSet(d, key, value) ==
    IF \E i \in 1..Len(d) : d[i].name = key
    THEN [i \in 1..Len(d) |-> IF d[i].name = key THEN [name |-> key, outputs |-> value] ELSE d[i]]
    ELSE Append(d, [name |-> key, outputs |-> value])

SimReasoning(agent, round_name) ==
    "Simulated reasoning by " \o agent.name \o " (" \o agent.type \o ") in " \o round_name \o "."

\* what one agent gives: its decision, a score when it is a ScoringReviewer,
\* concepts when it is an AbstractionReviewer that decided Included
AgentOutputs(agent, round_name) ==
    LET scoring == agent.type = "ScoringReviewer"
        abstracting(d) == agent.type = "AbstractionReviewer" /\ d = "Included"
        choices == {c \in SimDecisions \X (SimScores \cup {0}) \X (SimConcepts \cup {<<>>}) :
                       /\ (c[2] # 0) = scoring
                       /\ (c[3] # <<>>) = abstracting(c[1])}
    IN  { [agent |-> agent.name, decision |-> c[1],
           reasoning |-> SimReasoning(agent, round_name),
           has_score |-> scoring, score |-> c[2],
           has_concepts |-> abstracting(c[1]), concepts |-> c[3]] : c \in choices }

\* the cells one agent's output is written to
WriteOutput(row, i, o) ==
    LET e  == Put(Put(row, ColName(i, o.agent, "evaluation"), Str(o.decision)),
                  ColName(i, o.agent, "reasoning"), Str(o.reasoning))
        sc == IF o.has_score THEN Put(e, ColName(i, o.agent, "score"), Num(o.score)) ELSE e
    IN  IF o.has_concepts THEN Put(sc, ColName(i, o.agent, "extracted_concepts"), Lst(o.concepts))
        ELSE sc

\* Counter(decisions).most_common(1)[0][0]: the most frequent, the first seen on a tie
MostCommon(q) ==
    LET count(x) == Cardinality({i \in 1..Len(q) : q[i] = x})
        first(x) == CHOOSE i \in 1..Len(q) : q[i] = x /\ \A j \in 1..(i - 1) : q[j] # x
    IN  CHOOSE x \in SeqRange(q) :
            \A y \in SeqRange(q) \ {x} :
                count(x) > count(y) \/ (count(x) = count(y) /\ first(x) < first(y))

RECURSIVE SumOf(_)
SumOf(q) == IF Len(q) = 0 THEN 0 ELSE Head(q) + SumOf(Tail(q))

\* round(total / n, 1) on tenths (no mean of SimScores lies halfway between two tenths)
SimMean(total, n) == (2 * total + n) \div (2 * n)

RECURSIVE ConceptsOf(_)
ConceptsOf(outputs) ==
    IF Len(outputs) = 0 THEN <<>>
    ELSE (IF Head(outputs).has_concepts THEN Head(outputs).concepts ELSE <<>>)
         \o ConceptsOf(Tail(outputs))

RECURSIVE AllConcepts(_)
AllConcepts(d) == IF Len(d) = 0 THEN <<>> ELSE ConceptsOf(Head(d).outputs) \o AllConcepts(Tail(d))

\* final_decision, final_score and reasoning_summary from the outputs kept
\* under the last key of agent_decisions_by_round
SimFinalDecision(d) ==
    IF Len(d) = 0 \/ Len(Last(d).outputs) = 0 THEN "Unsure"
    ELSE LET IsDecided(o) == o.decision # "Unsure"
             decided == SelectSeq(Last(d).outputs, IsDecided)
         IN  IF Len(decided) > 0 THEN MostCommon([i \in 1..Len(decided) |-> decided[i].decision])
             ELSE "Unsure"

SimFinalScore(d) ==
    IF Len(d) = 0 \/ Len(Last(d).outputs) = 0 THEN NA
    ELSE LET HasScore(o) == o.has_score
             scored == SelectSeq(Last(d).outputs, HasScore)
         IN  IF Len(scored) > 0
             THEN Num(SimMean(SumOf([i \in 1..Len(scored) |-> scored[i].score]), Len(scored)))
             ELSE NA

SimReasoningSummary(d) ==
    IF Len(d) = 0 \/ Len(Last(d).outputs) = 0 THEN Str("Summary based on workflow.")
    ELSE Str(Last(d).outputs[1].reasoning \o "...")

\* the rows the end of a record can append: list(set(...)) fixes no order
SimFinalRows(row, d) ==
    { Put(Put(Put(Put(Put(row, "final_decision", Str(SimFinalDecision(d))),
                      "final_score", SimFinalScore(d)),
                  "reasoning_summary", SimReasoningSummary(d)),
              "detailed_workflow_log", Str("")),
          "extracted_concepts", Lst(q)) : q \in SeqsOfSet(SeqRange(AllConcepts(d))) }

\* the agents the simulated workflows are made of
SimAgents ==
    { MkAgent("Agent 1", "TitleAbstractReviewer"),
      MkAgent("Agent 2", "ScoringReviewer"),
      MkAgent("Agent 2", "AbstractionReviewer") }

SimTable == [none |-> FALSE, rows |-> << [id |-> "A1", cells |-> [x \in {} |-> NA]] >>]

SimLocals(table) ==
    [rec |-> 1, r |-> 1, a |-> 1,
     row |-> IF Len(table.rows) > 0 THEN table.rows[1] ELSE [id |-> "", cells |-> [x \in {} |-> NA]],
     this_round |-> <<>>, by_round |-> <<>>, results |-> <<>>]

\* the workflows the editor can have made of them, also with the first round
\* renamed to the name of the second
SimWorkflows ==
    WorkflowsOver(SimAgents)
    \cup { [w EXCEPT !.rounds[1].name = RoundName(2)] :
             w \in {v \in WorkflowsOver(SimAgents) : Len(v.rounds) > 0} }

InitSim ==
    /\ wf \in SimWorkflows
    /\ raw \in {SimTable, NoneTable}
    /\ out = SimLocals(raw)
    /\ pc = "ready"
    /\ api_key = ""
    /\ lib = LibWorks
    /\ ss = NoSession
    /\ calls = 0

\* the call, up to the first record's first round
SimCall ==
    /\ pc = "ready"
    /\ pc' = IF raw.none \/ Len(raw.rows) = 0 THEN "sim_done" ELSE "sim_rounds"
    /\ UNCHANGED <<wf, raw, api_key, lib, out, ss, calls>>

\* one pass of `for agent_cfg in round_data_cfg.get("agents", [])`
SimAgentStep ==
    /\ pc = "sim_rounds"
    /\ out.r <= Len(GetRounds(wf))
    /\ LET rd == GetRounds(wf)[out.r] IN
       /\ out.a <= Len(GetAgents(rd))
       /\ \E o \in AgentOutputs(GetAgents(rd)[out.a], rd.name) :
             out' = [out EXCEPT !.row = WriteOutput(@, out.r, o),
                                !.this_round = Append(@, o),
                                !.a = @ + 1]
    /\ UNCHANGED <<wf, raw, api_key, lib, pc, ss, calls>>

\* agent_decisions_by_round[round_name] = agent_outputs_this_round
SimRoundEnd ==
    /\ pc = "sim_rounds"
    /\ out.r <= Len(GetRounds(wf))
    /\ LET rd == GetRounds(wf)[out.r] IN
       /\ out.a > Len(GetAgents(rd))
       /\ out' = [out EXCEPT !.by_round = DictSet(@, rd.name, out.this_round),
                             !.this_round = <<>>,
                             !.r = @ + 1,
                             !.a = 1]
    /\ UNCHANGED <<wf, raw, api_key, lib, pc, ss, calls>>

\* the rest of the body of `for index, row in ris_data_df.iterrows()`
SimRecordEnd ==
    /\ pc = "sim_rounds"
    /\ out.r > Len(GetRounds(wf))
    /\ \E final \in SimFinalRows(out.row, out.by_round) :
          out' = [out EXCEPT !.results = Append(@, final),
                             !.rec = @ + 1,
                             !.r = 1, !.a = 1,
                             !.this_round = <<>>, !.by_round = <<>>,
                             !.row = IF out.rec < Len(raw.rows) THEN raw.rows[out.rec + 1] ELSE final]
    /\ pc' = IF out.rec < Len(raw.rows) THEN "sim_rounds" ELSE "sim_done"
    /\ UNCHANGED <<wf, raw, api_key, lib, ss, calls>>

NextSim == SimCall \/ SimAgentStep \/ SimRoundEnd \/ SimRecordEnd

SpecSim == InitSim /\ [][NextSim]_vars

\* --------------------------------------------------- gui_utils.parse_ris_file
\* A frame is [columns, rows]: the set of its column names and, per row, the
\* value under every column.  `raw` is what RISHandler loaded from the file (or
\* NoneTable when loading raised), `out` what parse_ris_file returned.
MaxRecords == 2

ESSENTIAL == <<"id", "title", "abstract">>
SourceColumns == {"ID", "TI", "AB", "OTHER_COL"}
RandInts == {1, 100}               \* random.randint(1,100)
RandYears == {"2000", "2023"}      \* str(random.randint(2000,2023))

\* col_map, on the tags SourceColumns holds
ColMap(c) ==
    CASE c = "ID" -> "id"
      [] c = "TI" -> "title"
      [] c = "AB" -> "abstract"
      [] OTHER    -> c

\* the values a record can carry under a tag; a record without the tag has NaN
SourceValues(c) ==
    CASE c = "ID" -> {Str("A1"), Str("A2"), NA}
      [] c = "TI" -> {Str("Title")}
      [] c = "AB" -> {Str("Abstract"), NA}
      [] OTHER    -> {Str("data")}

SourceFrames ==
    UNION { { [columns |-> cols, rows |-> rws] :
                rws \in UNION { [1..n -> { r \in [cols -> UNION {SourceValues(c) : c \in cols}] :
                                             \A c \in cols : r[c] \in SourceValues(c) }] :
                                n \in 0..(IF cols = {} THEN 0 ELSE MaxRecords) } } :
            cols \in SUBSET SourceColumns }

\* df.rename(columns=col_map)
Renamed(df) ==
    [columns |-> {ColMap(c) : c \in df.columns},
     rows |-> [i \in 1..Len(df.rows) |->
                 [c \in {ColMap(x) : x \in df.columns} |->
                     df.rows[i][CHOOSE x \in df.columns : ColMap(x) = c]]]]

\* df[col] = value, one value for the whole column
SetColumn(df, col, value) ==
    [columns |-> df.columns \cup {col},
     rows |-> [i \in 1..Len(df.rows) |->
                 [c \in df.columns \cup {col} |-> IF c = col THEN value ELSE df.rows[i][c]]]]

\* df[col] = values, one value per row
SetColumnRows(df, col, values) ==
    [columns |-> df.columns \cup {col},
     rows |-> [i \in 1..Len(df.rows) |->
                 [c \in df.columns \cup {col} |-> IF c = col THEN values[i] ELSE df.rows[i][c]]]]

\* (faulty variant) a missing essential column is left missing
FillMissing_NotFilled(df, col, n) == df

\* if col not in df.columns: df[col] = f"Missing_{col}_{random.randint(1,100)}"
FillMissing(df, col, n) ==
    IF col \in df.columns THEN df
    ELSE SetColumn(df, col, Str("Missing_" \o col \o "_" \o ToString(n)))

\* the loop over ['id','title','abstract'], n[k] being the k-th random number
FillEssential(df, n) ==
    FillMissing(FillMissing(FillMissing(df, ESSENTIAL[1], n[1]), ESSENTIAL[2], n[2]),
                ESSENTIAL[3], n[3])

\* authors, keywords, year and journal_name of a source that has none of them
FillOthers(df, years) ==
    SetColumnRows(
        SetColumnRows(
            SetColumn(SetColumn(df, "authors", Lst(<<>>)), "keywords", Lst(<<>>)),
            "year", [i \in 1..Len(df.rows) |-> Str(years[i])]),
        "journal_name", [i \in 1..Len(df.rows) |-> Str("Unknown Journal " \o ToString(i - 1))])

NoFrame == [columns |-> {}, rows |-> <<>>]
ParseError == [kind |-> "error", df |-> NoFrame]

InitRis ==
    /\ raw \in SourceFrames \cup {NoneTable}
    /\ out = [kind |-> "none", df |-> NoFrame]
    /\ pc = "ready"
    /\ wf = NoneWf
    /\ api_key = ""
    /\ lib = LibWorks
    /\ ss = NoSession
    /\ calls = 0

\* gui_utils.parse_ris_file(path): (df, None), or (None, "Parse Error ...")
\* when loading raised
parse_ris_file ==
    /\ pc = "ready"
    /\ IF raw = NoneTable
       THEN out' = ParseError
       ELSE \E n \in [1..3 -> RandInts] : \E years \in [1..Len(raw.rows) -> RandYears] :
               out' = [kind |-> "df", df |-> FillOthers(FillEssential(Renamed(raw), n), years)]
    /\ pc' = "parsed"
    /\ UNCHANGED <<wf, raw, api_key, lib, ss, calls>>

\* main(): the table is loaded when df is not None, and the pass stops before
\* the workflow and the Start button when an essential column is missing
MainChecksColumns ==
    /\ pc = "parsed"
    /\ pc' = IF out.kind # "df" THEN "not_loaded"
             ELSE IF \E k \in 1..Len(ESSENTIAL) : ESSENTIAL[k] \notin out.df.columns
                  THEN "stopped"
                  ELSE "review_available"
    /\ UNCHANGED <<wf, raw, api_key, lib, out, ss, calls>>

NextRis == parse_ris_file \/ MainChecksColumns

SpecRis == InitRis /\ [][NextRis]_vars

\* ------------------------------------------- gui_utils.sanitize_project_name
\* A name is the sequence of its characters.  `wf` holds the name handed to
\* the function, `out` the name it returned.
MaxName == 4

NameLetters == {"a", "Z"}
NameDigits  == {"7"}
Whitespace  == {" ", "\t"}                      \* what str.strip() and \s take
Allowed     == NameLetters \cup NameDigits \cup {"_", "-"}
NameChars   == Allowed \cup Whitespace \cup {"!"}

NamesUpTo(n) == UNION {[1..k -> NameChars] : k \in 0..n}

\* name.strip()
RECURSIVE LStrip(_)
LStrip(q) == IF Len(q) > 0 /\ Head(q) \in Whitespace THEN LStrip(Tail(q)) ELSE q

RECURSIVE RStrip(_)
RStrip(q) ==
    IF Len(q) > 0 /\ q[Len(q)] \in Whitespace THEN RStrip(SubSeq(q, 1, Len(q) - 1)) ELSE q

Strip(q) == RStrip(LStrip(q))

\* re.sub(r'[^a-zA-Z0-9_\-\s]', '', name)
DeleteOthers(q) ==
    LET Kept(c) == c \in Allowed \cup Whitespace IN SelectSeq(q, Kept)

\* re.sub(r'\s+', '_', name)
RECURSIVE UnderscoreRuns(_)
UnderscoreRuns(q) ==
    IF Len(q) = 0 THEN <<>>
    ELSE IF Head(q) \in Whitespace THEN <<"_">> \o UnderscoreRuns(LStrip(q))
    ELSE <<Head(q)>> \o UnderscoreRuns(Tail(q))

\* (faulty variant) the name is not stripped
sanitize_project_name_Unstripped(name) == UnderscoreRuns(DeleteOthers(name))

sanitize_project_name(name) == UnderscoreRuns(DeleteOthers(Strip(name)))

InitName ==
    /\ wf \in NamesUpTo(MaxName)
    /\ out = <<>>
    /\ pc = "ready"
    /\ raw = NoneTable
    /\ api_key = ""
    /\ lib = LibWorks
    /\ ss = NoSession
    /\ calls = 0

CallSanitize ==
    /\ pc = "ready"
    /\ out' = sanitize_project_name(wf)
    /\ pc' = "sanitized"
    /\ UNCHANGED <<wf, raw, api_key, lib, ss, calls>>

NextName == CallSanitize

SpecName == InitName /\ [][NextName]_vars

\* ================================== ui_components: the RAG file manager
\* ss is the session's project_rag_files, out the "rag_files" list of the
\* project's project_config.json, pc what the last pass did.
MaxBatch == 2      \* files held by the uploader in one pass

RagLimit == 5
RagNameSeq == <<"a.pdf", "b.txt", "c.pdf", "d.txt", "e.pdf", "f.txt">>   \* in sorted order
RagNames == SeqRange(RagNameSeq)
Batches == UNION {[1..n -> RagNames] : n \in 1..MaxBatch}

\* sorted(list(names))
SortedNames(names) == SelectSeq(RagNameSeq, LAMBDA n : n \in names)

\* list.remove(name): the first occurrence goes
RemoveName(q, name) ==
    LET i == CHOOSE k \in 1..Len(q) : q[k] = name /\ \A j \in 1..(k - 1) : q[j] # name
    IN  SubSeq(q, 1, i - 1) \o SubSeq(q, i + 1, Len(q))

\* (faulty variant) the loop over the uploaded files without the limit test
UploadLoop_NoLimit(batch, i, registered, newly, saved) ==
    [newly |-> SelectSeq(batch, LAMBDA n : \E k \in saved : batch[k] = n), limit |-> FALSE]

\* The loop over the uploaded files: it stops at the first file for which the
\* registered names and the names saved so far make up the limit; a file whose
\* write raises is skipped. `saved` are the positions whose write succeeds.
RECURSIVE UploadLoop(_, _, _, _, _)
UploadLoop(batch, i, registered, newly, saved) ==
    IF i > Len(batch) THEN [newly |-> newly, limit |-> FALSE]
    ELSE IF Len(registered) + Len(newly) >= RagLimit THEN [newly |-> newly, limit |-> TRUE]
    ELSE UploadLoop(batch, i + 1, registered,
                    IF i \in saved THEN Append(newly, batch[i]) ELSE newly, saved)

\* update_project_rag_files: the list is written to the project's config, or
\* the config cannot be read or written and keeps what it had
update_project_rag_files(config, rag_file_names) == {rag_file_names, config}

InitRag ==
    /\ ss = [project_rag_files |-> <<>>]
    /\ out = <<>>
    /\ pc = "ready"
    /\ wf = NoneWf
    /\ raw = NoneTable
    /\ api_key = ""
    /\ lib = LibWorks
    /\ calls = 0

\* a pass with files in the uploader
UploadRag ==
    /\ \E batch \in Batches : \E saved \in SUBSET (1..Len(batch)) :
          LET r == UploadLoop(batch, 1, ss.project_rag_files, <<>>, saved)
              merged == SortedNames(SeqRange(ss.project_rag_files) \cup SeqRange(r.newly))
          IN  /\ pc' = IF r.limit THEN "limit_reached"
                       ELSE IF Len(r.newly) > 0 THEN "uploaded" ELSE "not_saved"
              /\ IF Len(r.newly) > 0
                 THEN /\ ss' = [ss EXCEPT !.project_rag_files = merged]
                      /\ out' \in update_project_rag_files(out, merged)
                 ELSE UNCHANGED <<ss, out>>
    /\ UNCHANGED <<wf, raw, api_key, lib, calls>>

\* the delete button of a listed file: os.remove works, or raises
DeleteRag ==
    /\ \E i \in 1..Len(ss.project_rag_files) :
          \/ /\ ss' = [ss EXCEPT !.project_rag_files = RemoveName(@, @[i])]
             /\ out' \in update_project_rag_files(out, ss'.project_rag_files)
             /\ pc' = "deleted"
          \/ /\ pc' = "delete_failed"
             /\ UNCHANGED <<ss, out>>
    /\ UNCHANGED <<wf, raw, api_key, lib, calls>>

\* the project is selected again: the list is read from its config, or is
\* empty when the config cannot be read
load_project_rag_files_to_session ==
    /\ ss' \in {[ss EXCEPT !.project_rag_files = out], [ss EXCEPT !.project_rag_files = <<>>]}
    /\ pc' = "loaded"
    /\ UNCHANGED <<wf, raw, api_key, lib, out, calls>>

NextRag == UploadRag \/ DeleteRag \/ load_project_rag_files_to_session

SpecRag == InitRag /\ [][NextRag]_vars

\* ============================================ gui_utils: project creation
\* raw is PROJECTS_ROOT_DIR (what is at the path of every project id), wf the
\* name handed to create_project_structure, out what it returned and calls
\* the clock that gives created_at.
MaxCreates == 3    \* calls of create_project_structure in one run

CreateNames ==
    { <<"a", " ", "7">>, <<"a", "_", "7">>, <<"a", "!", " ", "7">>, <<" ", "Z">>, <<"Z">>,
      <<"!", " ", "!">>, <<"!">>, <<" ", "\t">> }
ProjectPaths == {sanitize_project_name(n) : n \in CreateNames} \ {<<>>}

\* nothing at the path, or the project directory with the directories and the
\* project_config.json made so far
NoPath == [exists |-> FALSE, dirs |-> {}, has_config |-> FALSE, project_name |-> <<>>, created_at |-> 0]
ProjectDirs == {"data", "results", "rag_context"}

\* what the file system lets the creation do: all of it, the project
\* directory and then an OSError, or an OSError at once
CreateOutcomes == {"created", "partial", "nothing"}

Invalid == [ok |-> FALSE, message |-> "Invalid project name.", name |-> <<>>]
AlreadyExists(id) == [ok |-> FALSE, message |-> "already exists", name |-> id]
OsError(id) == [ok |-> FALSE, message |-> "Error", name |-> id]
Created(name) == [ok |-> TRUE, message |-> "created successfully", name |-> name]

\* the body of the try: the directories, then the config
MakeProject(root, id, project_name, now, outcome) ==
    IF outcome = "created"
    THEN [dir |-> [root EXCEPT ![id] = [exists |-> TRUE, dirs |-> ProjectDirs, has_config |-> TRUE,
                                        project_name |-> project_name, created_at |-> now]],
          ret |-> Created(project_name)]
    ELSE IF outcome = "partial"
    THEN [dir |-> [root EXCEPT ![id] = [NoPath EXCEPT !.exists = TRUE]], ret |-> OsError(id)]
    ELSE [dir |-> root, ret |-> OsError(id)]

\* (faulty variant) no test of os.path.exists, and directories made with exist_ok
create_project_structure_Overwrites(root, project_name, now, outcome) ==
    LET sanitized_name == sanitize_project_name(project_name) IN
    IF sanitized_name = <<>> THEN [dir |-> root, ret |-> Invalid]
    ELSE MakeProject(root, sanitized_name, project_name, now, outcome)

create_project_structure(root, project_name, now, outcome) ==
    LET sanitized_name == sanitize_project_name(project_name) IN
    IF sanitized_name = <<>> THEN [dir |-> root, ret |-> Invalid]
    ELSE IF root[sanitized_name].exists THEN [dir |-> root, ret |-> AlreadyExists(sanitized_name)]
    ELSE MakeProject(root, sanitized_name, project_name, now, outcome)

InitCreate ==
    /\ raw = [id \in ProjectPaths |-> NoPath]
    /\ wf = <<>>
    /\ out = Invalid
    /\ pc = "ready"
    /\ calls = 0
    /\ api_key = ""
    /\ lib = LibWorks
    /\ ss = NoSession

\* "Create Project" of the new-project form, with a name typed in (the form
\* does not pass an empty name on)
CallCreate ==
    /\ calls < MaxCreates
    /\ \E name \in CreateNames : \E outcome \in CreateOutcomes :
          LET r == create_project_structure(raw, name, calls + 1, outcome) IN
          /\ wf' = name
          /\ raw' = r.dir
          /\ out' = r.ret
    /\ calls' = calls + 1
    /\ pc' = "called"
    /\ UNCHANGED <<api_key, lib, ss>>

NextCreate == CallCreate

SpecCreate == InitCreate /\ [][NextCreate]_vars

\* ===================================================== claims: aggregation
\* Helpers of the statements below (they read the inputs directly).
CountId(rows, id) == Cardinality({i \in 1..Len(rows) : rows[i].id = id})
NumRounds == Len(GetRounds(wf))
AgentsOfRound(r) == GetAgents(GetRounds(wf)[r])
EveryRoundHasAgent == NumRounds >= 1 /\ \A r \in 1..NumRounds : Len(AgentsOfRound(r)) >= 1
ConfiguredSlots == {<<r, j>> : r \in 1..NumRounds, j \in 1..MaxAgents + 1} \cap
                   UNION {{<<r, j>> : j \in 1..Len(AgentsOfRound(r))} : r \in 1..NumRounds}
SlotCol(slot, sfx) == ColName(slot[1], AgentsOfRound(slot[1])[slot[2]].name, sfx)
HasValue(v) == v.t # "na"
Parseable(v) == v.t = "num" \/ (v.t = "str" /\ v.s \in {"4.2", "4.0", "2.0"})
\* a blank cell ("") counts as no value, as it does in the source's log test
Blank(v) == v.t = "str" /\ v.s = ""
Unparseable(v) == HasValue(v) /\ ~Blank(v) /\ ~Parseable(v)
ParsedScore(v) == IF v.t = "num" THEN v.n
                  ELSE IF v.s = "4.2" THEN 42 ELSE IF v.s = "4.0" THEN 40 ELSE 20

\* C1: for a workflow with at least one round and at least one agent in every
\* round, aggregating a non-empty table completes and returns exactly the
\* input's record ids, each as often as the input holds it.
C1_OneRowPerRecord ==
    (pc # "ready" /\ ~raw.none /\ Len(raw.rows) > 0 /\ EveryRoundHasAgent) =>
        /\ pc \in {"pp_done", "inline_done"}
        /\ Len(out) = Len(raw.rows)
        /\ \A id \in RecordIds : CountId(out, id) = CountId(raw.rows, id)

RECURSIVE SumScores(_, _)
SumScores(row, slots) ==
    IF slots = {} THEN 0
    ELSE LET x == CHOOSE y \in slots : TRUE IN
         ParsedScore(Cell(row, SlotCol(x, "score"))) + SumScores(row, slots \ {x})

\* round(sum / n, 1) on tenths
RoundedMean(total, n) == (2 * total + n) \div (2 * n)

\* C3: when the last round holds several ScoringReviewer agents with a score
\* for the record, final_score is the mean of their scores (one decimal).
C3_MeanOfLastRoundScores ==
    (pc = "pp_done" /\ NumRounds > 0) =>
        \A i \in 1..Len(out) :
            LET scorers == {sl \in ConfiguredSlots :
                              /\ sl[1] = NumRounds
                              /\ AgentsOfRound(sl[1])[sl[2]].type = "ScoringReviewer"
                              /\ Parseable(Cell(raw.rows[i], SlotCol(sl, "score")))}
            IN  Cardinality(scorers) >= 2 =>
                  out[i].final_score =
                      Num(RoundedMean(SumScores(raw.rows[i], scorers), Cardinality(scorers)))

\* C4: an unparseable score of a configured agent never aborts aggregation, is
\* never turned into a number (the final score stays null when it is the score
\* the final score is read from), and appears verbatim in the record's log.
C4_UnparseableScoreKeptInLog ==
    (pc \in {"pp_done", "pp_raised"} /\ ~raw.none /\ NumRounds > 0) =>
        \A i \in 1..Len(raw.rows) : \A sl \in ConfiguredSlots :
            LET v == Cell(raw.rows[i], SlotCol(sl, "score")) IN
            Unparseable(v) =>
                /\ pc = "pp_done"
                /\ (sl = <<NumRounds, 1>> => out[i].final_score = NA)
                /\ (SlotCol(sl, "score") \o ": " \o Render(v)) \in SeqRange(out[i].detailed_workflow_log)

\* the concepts the configured agents emitted for a record
EmittedConcepts(row) ==
    UNION { SeqRange(Cell(row, SlotCol(sl, "extracted_concepts")).l) : sl \in ConfiguredSlots }

\* C5: for every record, extracted_concepts of the final result holds each
\* concept some configured agent emitted for it exactly once, and nothing else.
C5_ConceptsAreTheUnion ==
    (pc \in {"pp_done", "pp_raised"} /\ ~raw.none /\ NumRounds > 0) =>
        /\ pc = "pp_done"
        /\ \A i \in 1..Len(raw.rows) :
              /\ SeqRange(out[i].extracted_concepts) = EmittedConcepts(raw.rows[i])
              /\ Len(out[i].extracted_concepts) = Cardinality(EmittedConcepts(raw.rows[i]))

NoRoundsMessages == {"Error: No rounds in config", "Error: Workflow had no rounds in config"}

\* C6: with zero rounds configured, aggregation returns a row for every record,
\* with final_decision "N/A" and a log that says no rounds were configured.
C6_NoRoundsIsLogged ==
    (pc \in {"pp_done", "inline_done"} /\ ~raw.none /\ NumRounds = 0) =>
        /\ Len(out) = Len(raw.rows)
        /\ \A i \in 1..Len(out) :
              /\ out[i].final_decision = Str("N/A")
              /\ SeqRange(out[i].detailed_workflow_log) \cap NoRoundsMessages # {}

\* the log line of an outcome field the record received
FieldLine(row, sl, sfx) == SlotCol(sl, sfx) \o ": " \o Render(Cell(row, SlotCol(sl, sfx)))
Received(row, sl, sfx) ==
    LET v == Cell(row, SlotCol(sl, sfx)) IN HasValue(v) /\ ~Blank(v)
SlotBefore(a, b) == a[1] < b[1] \/ (a[1] = b[1] /\ a[2] <= b[2])

\* the inline log of main(): every outcome field received is listed, and every
\* line is the line of a cell the row holds
InlineLogListsOutcomes ==
    \A i \in 1..Len(out) :
        LET row == raw.rows[i]
            log == out[i].detailed_workflow_log
        IN  /\ \A sl \in ConfiguredSlots : \A sfx \in SeqRange(Suffixes) :
                   Received(row, sl, sfx) => FieldLine(row, sl, sfx) \in SeqRange(log)
            /\ \A p \in 1..Len(log) : \E c \in DOMAIN row.cells :
                   ~Blank(row.cells[c]) /\ log[p] = c \o ": " \o Render(row.cells[c])

C8_RunnableIffEveryRoundHasAgents ==
    pc = "runnable_done" =>
        (out.value <=>
            /\ wf.kind = "dict" /\ wf.has_rounds /\ Len(wf.rounds) > 0
            /\ \A i \in 1..Len(wf.rounds) :
                  wf.rounds[i].has_agents /\ Len(wf.rounds[i].agents) > 0)

\* C8 witness: the first round has an agent, the second has none, and the
\* function returned False.
C8_Witness ==
    /\ pc = "runnable_done" /\ wf.kind = "dict" /\ Len(wf.rounds) = 2
    /\ Len(wf.rounds[1].agents) > 0
    /\ wf.rounds[2].has_agents /\ Len(wf.rounds[2].agents) = 0
    /\ out.value = FALSE

\* C9: for every configuration in which some agent has a type outside
\* AGENT_TYPES_MAP, build_lattereview_workflow_from_config returns None.
C9_UnknownTypeBuildsNothing ==
    (pc = "build_done" /\ wf.kind = "dict" /\
     \E i \in 1..Len(GetRounds(wf)) : \E j \in 1..Len(GetAgents(GetRounds(wf)[i])) :
         ~KnownType(GetAgents(GetRounds(wf)[i])[j].type)) =>
        out.kind = "none"

\* ========================================================= claims: session
\* the run block of main() made its step: nothing else appends to the log of a
\* review in progress
RunStep ==
    /\ ss.review_in_progress /\ LogEndsAttempting(ss)
    /\ Len(ss'.review_log) > Len(ss.review_log)

BuildFails ==
    build_lattereview_workflow_from_config(
        CurrentWorkflow(ss), ss.gemini_api_key, lib).kind # "workflow"

\* C10: when building the workflow fails in the pass after Start, the backend
\* is not invoked in that pass, and the pass ends with review_in_progress False,
\* review_results still null and review_progress 0.
C10_BuildFailureRunsNothing ==
    [][ (RunStep /\ BuildFails) =>
            /\ calls' = calls
            /\ ~ss'.review_in_progress
            /\ ss'.review_results = NoneTable
            /\ ss'.review_progress = 0 ]_vars

\* C10 witness: a started review whose build failed: the log ends with the
\* failure, nothing ran and nothing is stored.
C10_Witness ==
    /\ pc = "session"
    /\ ss.review_log = <<Attempting, "Build FAILED.">>
    /\ calls = 0
    /\ ~ss.review_in_progress /\ ss.review_results = NoneTable /\ ss.review_progress = 0


\* the rounds of the workflow the editor shows
EditedRounds == IF ss.selected_project_id = NoProject THEN <<>> ELSE CurrentWorkflow(ss).rounds

\* a step leaves the filter type of every round that it keeps
KeepsFilterTypes ==
    \A i \in 2..Len(EditedRounds) :
        i <= Len(EditedRounds') =>
            EditedRounds'[i].filter_config.type = EditedRounds[i].filter_config.type

IncludedInRound(row, i) ==
    \E j \in 1..Len(GetAgents(GetRounds(wf)[i])) :
        Cell(row, ColName(i, GetAgents(GetRounds(wf)[i])[j].name, "evaluation")) = Str("Included")

\* the row holds an outcome of an agent of round i
HasOutcomeOfRound(row, i) ==
    \E j \in 1..Len(GetAgents(GetRounds(wf)[i])) : \E x \in 1..Len(Suffixes) :
        ColName(i, GetAgents(GetRounds(wf)[i])[j].name, Suffixes[x]) \in DOMAIN row.cells

\* C12 (as claimed): in the results of a two-round workflow whose second round
\* is filtered by included_previous, a record has second-round outcomes only if
\* a first-round agent decided Included on it.
C12_SecondRoundOnlyIncluded ==
    ( /\ pc = "sim_done"
      /\ Len(GetRounds(wf)) = 2
      /\ \A i \in 1..2 : Len(GetAgents(GetRounds(wf)[i])) > 0
      /\ GetRounds(wf)[2].filter_config.type = "included_previous" )
    => \A i \in 1..Len(out.results) :
          HasOutcomeOfRound(out.results[i], 2) => IncludedInRound(out.results[i], 1)


\* C13 (as claimed): whatever agents are added to and removed from a round,
\* no two agents of the round have the same name.
C13_AgentNamesUnique ==
    \A i \in 1..Len(EditedRounds) :
        \A j, k \in 1..Len(EditedRounds[i].agents) :
            j # k => EditedRounds[i].agents[j].name # EditedRounds[i].agents[k].name

\* C14 (as claimed): whatever rounds are added, removed and renamed, no two
\* rounds of the workflow have the same name.
C14_RoundNamesUnique ==
    \A i, j \in 1..Len(EditedRounds) : i # j => EditedRounds[i].name # EditedRounds[j].name


\* C15 (as claimed): while the agents of a record's rounds run, a cell that has
\* been written into the record's result row keeps its value: no later agent
\* or round overwrites an outcome.
C15_OutcomesAppendOnly ==
    [][ (pc = "sim_rounds" /\ pc' = "sim_rounds" /\ out'.rec = out.rec)
        => \A c \in DOMAIN out.row.cells :
              c \in DOMAIN out'.row.cells /\ out'.row.cells[c] = out.row.cells[c] ]_vars


\* C16: in every workflow configuration the editor reaches from the default
\* workflow, every round except the first has a filter_config.
C16_LaterRoundsHaveFilter ==
    \A i \in 2..Len(EditedRounds) : EditedRounds[i].filter_config # NoFilter

\* a second round whose filter was edited, with agents added around it
C16_Witness ==
    /\ Len(EditedRounds) = 2
    /\ EditedRounds[2].filter_config.type = "all_previous"
    /\ Len(EditedRounds[1].agents) > 0
    /\ Len(EditedRounds[2].agents) > 0


\* the backend was invoked in this step and an invocation in it failed
InvocationFailed ==
    /\ RunStep
    /\ calls' = calls + 1
    /\ Last(ss'.review_log) = BackendError

\* C17 (as claimed): a failing invocation does not abort the run: the step that
\* ran the backend still ends with a result table that has a row for the
\* loaded record.
C17_FailureKeepsTheRun ==
    [][ InvocationFailed =>
            /\ ~ss'.review_results.none
            /\ Len(ss'.review_results.rows) >= 1
            /\ ss'.review_progress = 100 ]_vars


\* the column a tag of the source becomes is missing from the source
ColumnMissing(col) == col \notin Renamed(raw).columns

\* the source has records, and the id, title or abstract field is absent from
\* all of them (no such column) or from one of them (a null value)
SourceLacksEssential ==
    /\ raw # NoneTable
    /\ Len(raw.rows) >= 1
    /\ \E k \in 1..Len(ESSENTIAL) :
          \/ ColumnMissing(ESSENTIAL[k])
          \/ \E i \in 1..Len(raw.rows) : Renamed(raw).rows[i][ESSENTIAL[k]] = NA

\* C18 (as claimed): a table loaded from a source in which the id, title or
\* abstract field is absent is rejected by the check of main: no review can be
\* started on it.
C18_MissingFieldRejected ==
    (pc \in {"stopped", "review_available", "not_loaded"} /\ SourceLacksEssential)
        => pc # "review_available"

\* C18 (amended): a source in which the id, title or abstract field is absent
\* is not rejected: parse_ris_file returns a table that has the three columns,
\* with the placeholder "Missing_<col>_<n>" in every row of a column the source
\* lacks and the source's value, null included, under a column it has; the
\* check of main finds the three columns and a review can be started.
C18_MissingFieldFilled ==
    (pc # "ready" /\ SourceLacksEssential) =>
        /\ out.kind = "df"
        /\ pc # "stopped"
        /\ \A k \in 1..Len(ESSENTIAL) :
              /\ ESSENTIAL[k] \in out.df.columns
              /\ \A i \in 1..Len(out.df.rows) :
                    IF ColumnMissing(ESSENTIAL[k])
                    THEN \E n \in RandInts :
                            out.df.rows[i][ESSENTIAL[k]] =
                                Str("Missing_" \o ESSENTIAL[k] \o "_" \o ToString(n))
                    ELSE out.df.rows[i][ESSENTIAL[k]] = Renamed(raw).rows[i][ESSENTIAL[k]]

\* a table from a source without ids got past the check of main
C18_Witness ==
    /\ pc = "review_available"
    /\ SourceLacksEssential
    /\ ColumnMissing("id")
    /\ out.df.rows[1]["id"] = Str("Missing_id_100")

\* C19 (as claimed): in a table of two or more rows returned by parse_ris_file
\* no two rows have the same id.
C19_RecordIdsUnique ==
    (pc = "parsed" /\ out.kind = "df") =>
        \A i, j \in 1..Len(out.df.rows) :
            i # j => out.df.rows[i]["id"] # out.df.rows[j]["id"]


\* the characters of q that are in S, in their order
Only(q, S) == LET In(c) == c \in S IN SelectSeq(q, In)

\* a whitespace character with a character that is not whitespace somewhere
\* before it and somewhere after it
InnerWhitespace(q) ==
    \E i, j, k \in 1..Len(q) :
        i < j /\ j < k /\ q[j] \in Whitespace /\ q[i] \notin Whitespace /\ q[k] \notin Whitespace

\* what the claim says of every result but for its emptiness: only letters,
\* digits, underscores and hyphens; the letters, digits and hyphens of the
\* input in their order; the input itself when it has no other character
SanitizedShape ==
    /\ \A i \in 1..Len(out) : out[i] \in Allowed
    /\ Only(out, Allowed \ {"_"}) = Only(wf, Allowed \ {"_"})
    /\ (\A i \in 1..Len(wf) : wf[i] \in Allowed) => out = wf

\* C21 (as claimed): the result has only letters, digits, underscores and
\* hyphens, is the input when the input has only those, and is empty when the
\* input has no letter, digit, underscore or hyphen.
C21_EmptyWithoutNameCharacter ==
    pc = "sanitized" =>
        /\ SanitizedShape
        /\ Only(wf, Allowed) = <<>> => out = <<>>

\* C21 (amended): the result has only letters, digits, underscores and
\* hyphens, is the input when the input has only those, and is empty exactly
\* when the input has no letter, digit, underscore or hyphen and no whitespace
\* between two characters that are not whitespace.
C21_EmptyWithoutInnerWhitespace ==
    pc = "sanitized" =>
        /\ SanitizedShape
        /\ (out = <<>>) <=> (Only(wf, Allowed) = <<>> /\ ~InnerWhitespace(wf))

\* a name of deleted characters around whitespace: the result is one underscore
C21_Witness ==
    /\ pc = "sanitized"
    /\ Only(wf, Allowed) = <<>>
    /\ InnerWhitespace(wf)
    /\ out = <<"_">>


\* C22: after every pass of the editor, each round but the first has a
\* threshold in its filter_config exactly when its filter type is
\* score_above_threshold, and has that type only when the round before it
\* holds a ScoringReviewer.
C22_ThresholdIffScoreFilter ==
    \A i \in 2..Len(EditedRounds) :
        LET f == EditedRounds[i].filter_config IN
        /\ f.has_threshold <=> f.type = ScoreFilter
        /\ f.type = ScoreFilter =>
              \E j \in 1..Len(EditedRounds[i - 1].agents) :
                  EditedRounds[i - 1].agents[j].type = "ScoringReviewer"

\* a threshold typed in under a score filter
C22_Witness ==
    /\ Len(EditedRounds) = 2
    /\ pc = "editor"
    /\ HasScorer(EditedRounds[1])
    /\ EditedRounds[2].filter_config = [type |-> ScoreFilter, has_threshold |-> TRUE, threshold |-> 35]


\* C23: while review_in_progress is True, no step changes the workflow
\* configuration of the selected project: the editing widgets are disabled and
\* the passes that render the editor write back what is configured.
C23_WorkflowFrozenDuringRun ==
    [][ (ss.review_in_progress /\ ss'.selected_project_id = ss.selected_project_id)
        => CurrentWorkflow(ss') = CurrentWorkflow(ss) ]_vars

\* a run in progress on a two-round workflow whose second round is filtered
\* by score: the editor has been rendered with review_in_progress True
C23_Witness ==
    /\ ss.review_in_progress
    /\ LogEndsAttempting(ss)
    /\ Len(EditedRounds) = 2
    /\ EditedRounds[2].filter_config.type = ScoreFilter
    /\ EditedRounds[2].filter_config.threshold = 35


\* the step is a click on Start
StartStep == ~ss.review_in_progress /\ ss'.review_in_progress

\* the workflow has a round, and every round of it has an agent
AllRoundsStaffed(w) ==
    /\ w.kind = "dict" /\ w.has_rounds /\ Len(w.rounds) >= 1
    /\ \A i \in 1..Len(w.rounds) : w.rounds[i].has_agents /\ Len(w.rounds[i].agents) >= 1

\* C24: a review is started only with an API key stored, a record table loaded
\* for the selected project, a workflow of at least one round whose rounds all
\* have an agent, and no review in progress; and the backend is invoked only
\* for such a workflow.
C24_StartOnlyWhenReady ==
    [][ /\ StartStep =>
            /\ ss.api_key_entered /\ ss.gemini_api_key # ""
            /\ ActiveDf(ss)
            /\ AllRoundsStaffed(CurrentWorkflow(ss))
            /\ ss'.selected_project_id = ss.selected_project_id
        /\ calls' # calls => AllRoundsStaffed(CurrentWorkflow(ss)) ]_vars

\* the backend has been invoked for a workflow of two rounds
C24_Witness ==
    /\ calls >= 1
    /\ ss.selected_project_id # NoProject
    /\ Len(CurrentWorkflow(ss).rounds) = 2
    /\ ss.review_progress = 100


\* C25: after one click on Start the backend is invoked at most once and the
\* run is ended on every path, and the session never stays in progress with a
\* log that ends in "Attempting...": a backend call is made only from such a
\* state and leaves it, and every such state is one whose next script pass
\* reaches the review block (a project is selected and a record table is
\* active), so that the pass ends the run.
C25_RunNeverStaysInProgress ==
    [][ /\ calls' # calls =>
              /\ ss.review_in_progress /\ LogEndsAttempting(ss)
              /\ calls' = calls + 1
              /\ ~ss'.review_in_progress /\ ~LogEndsAttempting(ss')
        /\ (ss'.review_in_progress /\ LogEndsAttempting(ss')) => ReachesWorkflow(ss') ]_vars


\* C26: in every session state a review progress of 100 comes with review
\* results that are not None.
C26_FinishedReviewHasResults ==
    ss.review_progress = 100 => ~ss.review_results.none


\* C27: whatever rounds and agents are added and removed, the workflow of the
\* selected project has at least one round, the filter type of its first round
\* is all_previous, and the first round is never taken away: a step that
\* removes a round leaves the first round as it was, and no step takes more
\* than one agent out of it.
C27_FirstRoundStays ==
    [][ /\ Len(EditedRounds') >= 1
        /\ EditedRounds'[1].filter_config.type = "all_previous"
        /\ Len(EditedRounds') < Len(EditedRounds) => EditedRounds'[1] = EditedRounds[1]
        /\ Len(EditedRounds'[1].agents) >= Len(EditedRounds[1].agents) - 1 ]_vars

\* C27 witness: a round was added, and of the two agents added to the first
\* round the first was removed again; the first round is still the one the
\* project started with, unfiltered.
C27_Witness ==
    /\ Len(EditedRounds) = 2
    /\ Len(EditedRounds[1].agents) = 1
    /\ EditedRounds[1].agents[1].name = "Agent 2"
    /\ EditedRounds[1].name = RoundName(1)
    /\ EditedRounds[1].filter_config.type = "all_previous"


\* C28: workflow configurations are kept per project: a step changes the
\* workflow of no project other than the selected one, and a step that changes
\* the selection (another project is picked, or the project is closed) leaves
\* every workflow that has at least one round as it was.
C28_WorkflowsKeptPerProject ==
    [][ \A p \in Projects :
          /\ (p # ss.selected_project_id /\ p # ss'.selected_project_id)
                => ss'.workflow_config[p] = ss.workflow_config[p]
          /\ (ss'.selected_project_id # ss.selected_project_id /\ ~NoRounds(ss.workflow_config[p]))
                => ss'.workflow_config[p] = ss.workflow_config[p] ]_vars

\* C28 witness: p1 is selected again after its table had been loaded (the
\* table is there and no file is active); its workflow has the two rounds and
\* the agent it was given, and p2 has the different workflow it was given.
C28_Witness ==
    /\ ss.selected_project_id = "p1"
    /\ ss.ris_dataframes["p1"] /\ ss.active_ris_filename = NoFile
    /\ ~NoRounds(ss.workflow_config["p1"]) /\ ~NoRounds(ss.workflow_config["p2"])
    /\ Len(ss.workflow_config["p1"].rounds) = 2
    /\ Len(ss.workflow_config["p1"].rounds[1].agents) = 1
    /\ Len(ss.workflow_config["p2"].rounds) = 1
    /\ Len(ss.workflow_config["p2"].rounds[1].agents) = 2


NoDuplicates(q) == \A i, j \in 1..Len(q) : q[i] = q[j] => i = j

\* C29: after any uploads and deletions the RAG files registered for the
\* project, in the session and in the project's config, are at most 5 names
\* without duplicates, and a deletion whose file removal fails leaves both
\* lists as they were.
C29_RagListBounded ==
    [][ /\ Len(ss'.project_rag_files) <= RagLimit /\ NoDuplicates(ss'.project_rag_files)
        /\ Len(out') <= RagLimit /\ NoDuplicates(out')
        /\ pc' = "delete_failed" => (ss' = ss /\ out' = out) ]_vars

\* C29 witness: five names are registered and the pass refused a further file
C29_Witness ==
    /\ pc = "limit_reached"
    /\ Len(ss.project_rag_files) = RagLimit
    /\ Len(out) = RagLimit


\* C30: create_project_structure never changes what exists: a name whose
\* sanitized form is empty gives (False, "Invalid project name."), a name whose
\* sanitized form is the id of something that exists gives (False, "...
\* already exists"), both with the projects directory as it was; whatever it
\* returns, everything that existed is as it was, and it returns True only for
\* a sanitized name at which nothing existed, so that of two names with the
\* same sanitized form at most the first is created.
C30_ExistingProjectsUntouched ==
    [][ calls' # calls =>
          LET id == sanitize_project_name(wf') IN
          /\ id = <<>> => (out' = Invalid /\ raw' = raw)
          /\ (id # <<>> /\ raw[id].exists) => (out' = AlreadyExists(id) /\ raw' = raw)
          /\ \A k \in ProjectPaths : raw[k].exists => raw'[k] = raw[k]
          /\ out'.ok => (id # <<>> /\ ~raw[id].exists /\ raw'[id].has_config) ]_vars

\* C30 witness: "a 7" was created as a_7, and a later call with "a! 7", which
\* has the same sanitized form, was refused
C30_Witness ==
    /\ raw[<<"a", "_", "7">>].has_config
    /\ raw[<<"a", "_", "7">>].project_name = <<"a", " ", "7">>
    /\ wf = <<"a", "!", " ", "7">>
    /\ out = AlreadyExists(<<"a", "_", "7">>)

====
